---- MODULE Spec2Model ----
(***************************************************************************)
(* Webhook verification and event-forwarding pipeline of the Sumsub node   *)
(* proxy: the /sumsub-webhook endpoint (server.js, and the variant that    *)
(* awaits the signature check), verifyWebhookSignature, both copies of     *)
(* handleWebhookEvent in SumsubApiClient.js, the process-wide              *)
(* verificationCache and the storeFailedWebhook stubs.  SpecNormalize      *)
(* applies the normalization of handleWebhookEvent to every event;         *)
(* SpecCache applies generate, reGenerate, checkUserStatus,                *)
(* resetUserProfile and handleWebhookEvent to the cache under a clock.     *)
(*                                                                         *)
(* Strings are sequences of tokens.  The delimiter ';externalUserId=' is   *)
(* the single token Marker.  One action is one turn of the event loop: an  *)
(* I/O event and the continuation it resumes, up to the next await on I/O. *)
(***************************************************************************)
EXTENDS Integers, Sequences, FiniteSets, TLC

\* Number of inbound webhook requests in one behaviour.
MaxRuns == 2

\* Longest applicant identifier, in tokens, handed to the normalization.
MaxIdLen == 3

\* Last reading of the clock.
MaxClock == 1

VARIABLES
    env,                \* process.env: SUMSUB_WEBHOOK_SECRET, DEBUG_WEBHOOK
    deploy,             \* which server file / client copy runs, and Node's unhandled-rejection mode
    verificationCache,  \* const verificationCache = new Map()
    runs,               \* one record per inbound request: position, locals, response, step trace
    failedWebhookQueue, \* the failed webhooks stored for retry
    crashed,            \* the process was terminated by an unhandled rejection
    vin,                \* arguments of a direct call of verifyWebhookSignature
    vout,               \* what that call resolved or rejected with
    nin,                \* a client copy and an event handed to handleWebhookEvent
    nout,               \* what handleWebhookEvent makes of the event before its POST
    now,                \* the clock that new Date() reads
    op,                 \* the last operation applied to the cache on its own
    adminCache,         \* const verificationCache = new Map() of server.js: the admin memo
    api                 \* the last request to a link or admin endpoint, and its answer

vars == <<env, deploy, verificationCache, runs, failedWebhookQueue, crashed, vin, vout,
          nin, nout, now, op, adminCache, api>>

----------------------------------------------------------------------------
(* Strings *)

Marker == "M"                  \* ';externalUserId='
Undefined == <<"undefined">>   \* a property that is absent from the parsed JSON
Unset == <<>>                  \* an empty / absent string (falsy in JS)
Never == 0 - 1                 \* a time property that is absent from an object

Falsy(s) == s = Unset \/ s = Undefined

\* s.split(';externalUserId=') : the segments between the occurrences of the marker
RECURSIVE Split(_)
Split(s) ==
    IF \E i \in 1..Len(s) : s[i] = Marker
    THEN LET i == CHOOSE k \in 1..Len(s) :
                     s[k] = Marker /\ \A j \in 1..(k - 1) : s[j] # Marker
         IN  <<SubSeq(s, 1, i - 1)>> \o Split(SubSeq(s, i + 1, Len(s)))
    ELSE <<s>>

\* s.includes(';externalUserId=')
Includes(s) == \E i \in 1..Len(s) : s[i] = Marker

----------------------------------------------------------------------------
(* Inbound payloads *)

\* An event is the parsed JSON: type, applicantId, and of reviewResult the
\* reviewStatus ("none" when absent) and the rejectLabels (Undefined when absent).
EvReviewed ==
    [type |-> "applicantReviewed", applicantId |-> <<"app1", Marker, "u1">>,
     reviewStatus |-> "completed", rejectLabels |-> Undefined]
EvCreated ==
    [type |-> "applicantCreated", applicantId |-> <<"u1">>, reviewStatus |-> "none",
     rejectLabels |-> Undefined]
EvNoApplicant ==
    [type |-> "applicantPending", applicantId |-> Undefined, reviewStatus |-> "none",
     rejectLabels |-> Undefined]
EvMarkerLast ==
    [type |-> "applicantReviewed", applicantId |-> <<"app2", Marker>>,
     reviewStatus |-> "completed", rejectLabels |-> Undefined]
EvUnknownType ==
    [type |-> "applicantReset", applicantId |-> <<"app3", Marker, "u3">>,
     reviewStatus |-> "none", rejectLabels |-> Undefined]
NoEvent ==
    [type |-> "none", applicantId |-> Undefined, reviewStatus |-> "none",
     rejectLabels |-> Undefined]

\* The request bodies that arrive: JSON documents and one that JSON.parse rejects.
Bodies ==
    << [parsable |-> TRUE,  event |-> EvReviewed],
       [parsable |-> TRUE,  event |-> EvCreated],
       [parsable |-> TRUE,  event |-> EvNoApplicant],
       [parsable |-> FALSE, event |-> NoEvent],
       [parsable |-> TRUE,  event |-> EvMarkerLast],
       [parsable |-> TRUE,  event |-> EvUnknownType] >>

BodySet == {Bodies[i] : i \in 1..Len(Bodies)}
BodyTags == <<"b1", "b2", "b3", "b4", "b5", "b6">>
BodyTag(b) == BodyTags[CHOOSE i \in 1..Len(Bodies) : Bodies[i] = b]

Secrets == {<<"k1">>, <<"k2">>}

----------------------------------------------------------------------------
(* Signature verifier *)

\* crypto.createHmac('sha256', secret).update(payload).digest('hex'): a fixed-length
\* digest that differs whenever the key or the message differs.
Hmac(secret, body) == <<"h">> \o secret \o <<BodyTag(body)>>

\* crypto.timingSafeEqual on two buffers of one length: every position is compared.
timingSafeEqual(a, b) == \A i \in 1..Len(a) : a[i] = b[i]

\* Mutant: a comparison that stops at the first position that differs.
timingSafeEqualStepsShortCircuit(a, b) ==
    IF \E i \in 1..Len(a) : a[i] # b[i]
    THEN CHOOSE i \in 1..Len(a) : a[i] # b[i] /\ \A j \in 1..(i - 1) : a[j] = b[j]
    ELSE Len(a)

\* The positions crypto.timingSafeEqual compares: all of them, whatever they hold.
timingSafeEqualSteps(a, b) == Len(a)

\* The condition of the if in verifyWebhookSignature,
\*   received.length !== computed.length || !crypto.timingSafeEqual(received, computed)
\* with the number of positions it compares: || does not evaluate its right side
\* when the lengths differ.
signatureComparison(receivedSignature, computedDigest) ==
    IF Len(receivedSignature) # Len(computedDigest)
    THEN [failed |-> TRUE, steps |-> 0]
    ELSE [failed |-> ~timingSafeEqual(receivedSignature, computedDigest),
          steps |-> timingSafeEqualSteps(receivedSignature, computedDigest)]

\* Mutant: no length check, and only the computed digest's length is compared, so
\* extra trailing characters are ignored.
verifyWebhookSignaturePrefix(rawBody, receivedSignature, webhookSecret) ==
    IF Falsy(webhookSecret) THEN "true"
    ELSE IF Falsy(receivedSignature) THEN "Missing x-payload-digest header"
    ELSE LET computedDigest == Hmac(webhookSecret, rawBody)
         IN  IF Len(receivedSignature) < Len(computedDigest)
                \/ ~timingSafeEqual(computedDigest, receivedSignature)
             THEN "Invalid webhook signature"
             ELSE "true"

\* What the promise returned by verifyWebhookSignature settles with: "true" when it
\* resolves (it never resolves with false), the error message when it rejects.
verifyWebhookSignature(rawBody, receivedSignature, webhookSecret) ==
    IF Falsy(webhookSecret) THEN "true"
    ELSE IF Falsy(receivedSignature) THEN "Missing x-payload-digest header"
    ELSE LET computedDigest == Hmac(webhookSecret, rawBody)
         IN  IF signatureComparison(receivedSignature, computedDigest).failed
             THEN "Invalid webhook signature"
             ELSE "true"

----------------------------------------------------------------------------
(* Configuration *)

\* The two webhook servers of the repository: server.js calls the verifier
\* without awaiting it, the other awaits it.  SumsubApiClient.js holds two
\* copies of the client.  Node either warns about an unhandled rejection or
\* terminates the process.
Servers == {"server.js", "part_001"}
Clients == {1, 2}
UnhandledModes == {"warn", "throw"}

\* Replies of the downstream system-of-record to one POST.
Replies == {"200", "201", "400", "500", "network", "timeout"}
Is2xx(o) == o \in {"200", "201"}

----------------------------------------------------------------------------
(* One pipeline run *)

\* No payload has been built.
NoPayload ==
    [type |-> "none", applicantId |-> Undefined, externalUserId |-> Undefined,
     reviewStatus |-> "none", rejectLabels |-> Undefined, createdAt |-> Never]

IdleRun ==
    [pc |-> "idle", rawBody |-> Bodies[4], sig |-> Unset, readable |-> TRUE,
     verified |-> "none",
     payload |-> NoPayload, ext |-> Unset, postReply |-> "none", status |-> 0, err |-> "none",
     failure |-> "none",
     trace |-> <<>>]

Step(run, label) == [run EXCEPT !.trace = Append(@, label)]

\* res.status(code).send / .json
Respond(run, code) == [Step(run, "respond") EXCEPT !.status = code, !.pc = "done"]

\* The catch block of the endpoint: server.js answers 403 when the message contains
\* 'Invalid webhook signature' and 200 otherwise; the other server answers 400.
CatchStatus(server, message) ==
    IF server = "part_001" THEN 400
    ELSE IF message = "Invalid webhook signature" THEN 403 ELSE 200

Caught(run, message) ==
    Respond([run EXCEPT !.err = message], CatchStatus(deploy.server, message))

----------------------------------------------------------------------------
(* Failed-webhook storage *)

\* storeFailedWebhook logs the webhook and stores nothing: the queue it is meant to
\* add to is returned as it was.
storeFailedWebhook(queue, failedWebhook) == queue

\* The entries awaiting replay.
listPending(queue) == queue

----------------------------------------------------------------------------
(* Client: handleWebhookEvent *)

\* First copy: applicantId.includes(m) ? applicantId.split(m)[1] : applicantId
externalUserIdFirst(applicantId) ==
    IF Includes(applicantId) THEN Split(applicantId)[2] ELSE applicantId

\* Second copy: applicantId.split(m)[1] || applicantId
externalUserIdSecond(applicantId) ==
    LET parts == Split(applicantId)
    IN  IF Len(parts) >= 2 /\ ~Falsy(parts[2]) THEN parts[2] ELSE applicantId

externalUserId(client, applicantId) ==
    IF client = 1 THEN externalUserIdFirst(applicantId)
    ELSE externalUserIdSecond(applicantId)

\* The reviewStatus of the object that is POSTed: reviewResult?.reviewStatus ||
\* 'pending' in the first copy, reviewResult?.reviewStatus as it is in the second.
reviewStatus(client, event) ==
    IF client = 1 /\ event.reviewStatus = "none" THEN "pending"
    ELSE event.reviewStatus

\* The object handleWebhookEvent builds from the event and POSTs to the downstream.
\* reviewResult is passed on as it came: rejectLabels stands for it.  The first copy
\* stamps the payload with createdAt: new Date(); the second sends no time.
webhookPayload(client, event) ==
    [type |-> event.type,
     applicantId |-> event.applicantId,
     externalUserId |-> externalUserId(client, event.applicantId),
     reviewStatus |-> reviewStatus(client, event),
     rejectLabels |-> event.rejectLabels,
     createdAt |-> IF client = 1 THEN now ELSE Never]

\* The branch the switch of processWebhookEvent takes: the handler it calls, "none"
\* for a reviewed applicant that is neither completed nor rejected.
Handler(type, status) ==
    CASE type = "applicantReviewed" ->
             IF status = "completed" THEN "handleCompletedVerification"
             ELSE IF status = "rejected" THEN "handleRejectedVerification"
             ELSE "none"
      [] type = "applicantPending" -> "handlePendingVerification"
      [] type = "applicantCreated" -> "handleNewApplicant"
      [] type = "applicantOnHold" -> "handleOnHoldVerification"
      [] OTHER -> "handleUnknownEvent"

\* The handlers the first copy defines.  The other three are called and defined
\* nowhere: calling one throws a ReferenceError.
DefinedHandlers ==
    {"handleCompletedVerification", "handleRejectedVerification", "handleNewApplicant"}

\* processWebhookEvent(type, externalUserId, reviewResult?.reviewStatus, event) up to
\* the call of the handler; in the second copy the switch is inline and its branches
\* only log.
processWebhookEvent(client, type, status) ==
    LET handler == Handler(type, status)
    IN  [handler |-> handler,
         err |-> IF client = 1 /\ handler # "none" /\ handler \notin DefinedHandlers
                 THEN "ReferenceError" ELSE "none"]

\* Whether the webhook POST carries a timeout: 40000 ms in the first copy, none in
\* the second.
PostHasTimeout(client) == client = 1

\* A cached object with none of its properties set.  The properties are those of
\* the three kinds of record the client caches; "none", Undefined and Never mark
\* the ones a record does not have.
NoRecord ==
    [type |-> "none", applicantId |-> Undefined, externalUserId |-> Undefined,
     reviewStatus |-> "none", rejectLabels |-> Undefined, status |-> "none",
     url |-> "none", djangoResponse |-> "none",
     createdAt |-> Never, processedAt |-> Never, receivedAt |-> Never,
     lastChecked |-> Never]

\* The record handleWebhookEvent caches after a successful POST.  First copy:
\* {...webhookPayload, djangoResponse, processedAt}.  Second copy: {applicantId,
\* externalUserId, eventType, status: reviewStatus || 'unknown', receivedAt, details}
\* (eventType is the type property here, details the rejectLabels).
VerificationData(client, payload, reply) ==
    IF client = 1
    THEN [NoRecord EXCEPT
             !.type = payload.type, !.applicantId = payload.applicantId,
             !.externalUserId = payload.externalUserId,
             !.reviewStatus = payload.reviewStatus,
             !.rejectLabels = payload.rejectLabels,
             !.createdAt = payload.createdAt,
             !.djangoResponse = reply,
             !.processedAt = now]
    ELSE [NoRecord EXCEPT
             !.type = payload.type, !.applicantId = payload.applicantId,
             !.externalUserId = payload.externalUserId,
             !.status = IF payload.reviewStatus = "none" THEN "unknown"
                        ELSE payload.reviewStatus,
             !.rejectLabels = payload.rejectLabels,
             !.receivedAt = now]

\* Mutant: a record that exists is merged into: its applicantId is kept.
CacheSetMerge(cache, key, value) ==
    [k \in DOMAIN cache \cup {key} |->
        IF k # key THEN cache[k]
        ELSE IF key \in DOMAIN cache
             THEN [value EXCEPT !.applicantId = cache[key].applicantId]
             ELSE value]

\* verificationCache.set(key, value): the record under the key is replaced whole.
CacheSet(cache, key, value) ==
    [k \in DOMAIN cache \cup {key} |-> IF k = key THEN value ELSE cache[k]]

\* Mutant: the record is cached before the POST is issued.
handleWebhookEventCallCacheFirst(run, cache) ==
    LET event == run.rawBody.event
        r1 == Step(run, "handle")
        ext == externalUserId(deploy.client, event.applicantId)
    IN  IF event.applicantId = Undefined
        THEN [run |-> [r1 EXCEPT !.pc = "thrown", !.err = "TypeError"],
              cache |-> cache]
        ELSE [run |-> [Step(Step(r1, "cache"), "post") EXCEPT
                          !.pc = "awaitPost", !.ext = ext],
              cache |-> CacheSet(cache, ext,
                                 VerificationData(deploy.client,
                                     webhookPayload(deploy.client, event), "none"))]

\* Mutant: a missing applicantId is tolerated (applicantId?.includes) and the event
\* is forwarded without a subject.
handleWebhookEventCallNoThrow(run, cache) ==
    LET event == run.rawBody.event
    IN  [run |-> [Step(Step(run, "handle"), "post") EXCEPT
                     !.pc = "awaitPost",
                     !.ext = IF event.applicantId = Undefined THEN Undefined
                             ELSE externalUserId(deploy.client, event.applicantId)],
         cache |-> cache]

\* handleWebhookEvent from its call to the await of axios.post: the cache is not
\* touched.  A missing applicantId makes applicantId.includes / .split throw a
\* TypeError before the try block: pc "thrown".
handleWebhookEventCall(run, cache) ==
    LET event == run.rawBody.event
        r1 == Step(run, "handle")
    IN  IF event.applicantId = Undefined
        THEN [run |-> [r1 EXCEPT !.pc = "thrown", !.err = "TypeError"],
              cache |-> cache]
        ELSE LET payload == webhookPayload(deploy.client, event)
             IN  [run |-> [Step(r1, "post") EXCEPT
                              !.pc = "awaitPost",
                              !.payload = payload,
                              !.ext = payload.externalUserId],
                  cache |-> cache]

FailureKind(reply) ==
    CASE reply = "400" -> "4xx"
      [] reply = "500" -> "5xx"
      [] OTHER -> reply

\* The catch block of handleWebhookEvent: storeFailedWebhook, then rethrow.
handleWebhookEventCatch(run, reply) ==
    [Step(run, "store") EXCEPT
        !.pc = "thrown",
        !.failure = FailureKind(reply),
        !.err = IF deploy.client = 1 THEN "Webhook processing failed"
                ELSE "Request failed"]

\* The first copy after its cache write: processWebhookEvent.  An undefined handler
\* throws into the catch block; handleNewApplicant issues a POST of its own; the
\* other handlers log and return.
AfterCache(run, event) ==
    LET dispatch == processWebhookEvent(1, event.type, event.reviewStatus)
    IN  IF dispatch.err # "none" THEN handleWebhookEventCatch(run, dispatch.err)
        ELSE IF dispatch.handler = "handleNewApplicant"
        THEN [Step(run, "initiate") EXCEPT !.pc = "awaitInitiate"]
        ELSE [run EXCEPT !.pc = "returned"]

\* Mutant: the record is cached under the applicant identifier as it came.
handleWebhookEventResumeKeyApplicant(run0, reply, cache) ==
    LET run == [run0 EXCEPT !.postReply = reply]
    IN
    IF ~Is2xx(reply)
    THEN [run |-> handleWebhookEventCatch(run, reply), cache |-> cache]
    ELSE LET event == run.rawBody.event
             data == VerificationData(deploy.client, run.payload, reply)
             cached == Step(run, "cache")
         IN  IF deploy.client = 1
             THEN [run |-> AfterCache(cached, event),
                   cache |-> CacheSet(cache, event.applicantId, data)]
             ELSE IF reply = "200"
                  THEN [run |-> [cached EXCEPT !.pc = "returned"],
                        cache |-> CacheSet(cache, event.applicantId, data)]
                  ELSE [run |-> [run EXCEPT !.pc = "returned"], cache |-> cache]

\* Mutant: the record is cached in the catch block too.
handleWebhookEventResumeCacheAlways(run0, reply, cache) ==
    LET run == [run0 EXCEPT !.postReply = reply]
        event == run.rawBody.event
        data == VerificationData(deploy.client, run.payload, reply)
        cached == Step(run, "cache")
    IN  IF ~Is2xx(reply)
        THEN [run |-> handleWebhookEventCatch(cached, reply),
              cache |-> CacheSet(cache, run.ext, data)]
        ELSE [run |-> IF deploy.client = 2 THEN [cached EXCEPT !.pc = "returned"]
                      ELSE AfterCache(cached, event),
              cache |-> CacheSet(cache, run.ext, data)]

\* handleWebhookEvent resumed by the reply to its POST.  axios rejects on anything
\* but a 2xx.  The first copy caches on every 2xx and then runs processWebhookEvent,
\* whose applicantCreated branch issues the POST of handleNewApplicant; the second
\* copy caches only when response.status === 200 and returns undefined otherwise.
handleWebhookEventResume(run0, reply, cache) ==
    LET run == [run0 EXCEPT !.postReply = reply]
    IN
    IF ~Is2xx(reply)
    THEN [run |-> handleWebhookEventCatch(run, reply), cache |-> cache]
    ELSE LET event == run.rawBody.event
             data == VerificationData(deploy.client, run.payload, reply)
             cached == Step(run, "cache")
         IN  IF deploy.client = 1
             THEN [run |-> AfterCache(cached, event),
                   cache |-> CacheSet(cache, run.ext, data)]
             ELSE IF reply = "200"
                  THEN [run |-> [cached EXCEPT !.pc = "returned"],
                        cache |-> CacheSet(cache, run.ext, data)]
                  ELSE [run |-> [run EXCEPT !.pc = "returned"], cache |-> cache]

\* handleNewApplicant resumed by the reply to its POST: it returns on a 2xx and
\* rethrows otherwise, into the catch block of handleWebhookEvent.
handleNewApplicantResume(run, reply) ==
    IF Is2xx(reply) THEN [run EXCEPT !.pc = "returned"]
    ELSE handleWebhookEventCatch(run, reply)

\* handleWebhookEvent from its call to its return, its POST answered with reply:
\* the cache it leaves.
handleWebhookEvent(event, reply, cache) ==
    LET request == [IdleRun EXCEPT !.rawBody = [parsable |-> TRUE, event |-> event]]
        call == handleWebhookEventCall(request, cache)
    IN  IF call.run.pc # "awaitPost" THEN call.cache
        ELSE handleWebhookEventResume(call.run, reply, call.cache).cache

----------------------------------------------------------------------------
(* Client: the operations on applicants.  Each is given the provider's answer to
   every request it makes and yields the cache it leaves, the requests it issued
   and the error it threw ("none" when it returned). *)

\* sumsubRequest resolves on response.ok and throws on everything else.
ProviderReplies == {"ok", "error"}

Returned(cache, requests) == [cache |-> cache, requests |-> requests, err |-> "none"]
Threw(cache, requests, err) == [cache |-> cache, requests |-> requests, err |-> err]

\* await sumsubRequest(url, 'POST', requestBody), then
\* verificationCache.set(userId, {url, createdAt: new Date(), levelName, status: 'pending'})
getWebSDKLink(cache, userId, reply) ==
    IF reply # "ok" THEN Threw(cache, <<"link">>, "Sumsub API error")
    ELSE Returned(CacheSet(cache, userId,
                           [NoRecord EXCEPT !.url = "url", !.createdAt = now,
                                            !.status = "pending"]),
                  <<"link">>)

\* verificationCache.delete(userId)
CacheDelete(cache, userId) ==
    IF DOMAIN cache \subseteq {userId} THEN <<>>
    ELSE [k \in DOMAIN cache \ {userId} |-> cache[k]]

\* Mutant: the cache is cleared before the reset request is awaited.
resetUserProfileEvictFirst(cache, userId, reply) ==
    IF Falsy(userId) THEN Threw(cache, <<>>, "User ID is required for profile reset")
    ELSE IF reply # "ok"
    THEN Threw(CacheDelete(cache, userId), <<"reset">>, "Sumsub API error")
    ELSE Returned(CacheDelete(cache, userId), <<"reset">>)

\* if (!userId) throw; await sumsubRequest(url, 'POST'); verificationCache.delete(userId)
resetUserProfile(cache, userId, reply) ==
    IF Falsy(userId) THEN Threw(cache, <<>>, "User ID is required for profile reset")
    ELSE IF reply # "ok" THEN Threw(cache, <<"reset">>, "Sumsub API error")
    ELSE Returned(CacheDelete(cache, userId), <<"reset">>)

\* Mutant: a cached user for whom the provider reports no review status is dropped.
checkUserStatusEvictUnknown(cache, userId, reply, responseStatus) ==
    IF reply # "ok" THEN Threw(cache, <<"status">>, "Sumsub API error")
    ELSE IF userId \in DOMAIN cache
    THEN IF responseStatus = "none"
         THEN Returned(CacheDelete(cache, userId), <<"status">>)
         ELSE Returned(CacheSet(cache, userId,
                                [cache[userId] EXCEPT !.status = responseStatus,
                                                      !.lastChecked = now]),
                       <<"status">>)
    ELSE Returned(cache, <<"status">>)

\* Mutant: the status is cached whether or not the user has a record.
checkUserStatusAlwaysSet(cache, userId, reply, responseStatus) ==
    IF reply # "ok" THEN Threw(cache, <<"status">>, "Sumsub API error")
    ELSE Returned(CacheSet(cache, userId,
                           [(IF userId \in DOMAIN cache THEN cache[userId] ELSE NoRecord)
                               EXCEPT
                               !.status = IF responseStatus = "none" THEN "unknown"
                                          ELSE responseStatus,
                               !.lastChecked = now]),
                  <<"status">>)

\* await sumsubRequest(url, 'GET'); only a cached user is updated: {...cached,
\* status: response.reviewStatus || 'unknown', lastChecked: new Date()}
checkUserStatus(cache, userId, reply, responseStatus) ==
    IF reply # "ok" THEN Threw(cache, <<"status">>, "Sumsub API error")
    ELSE IF userId \in DOMAIN cache
    THEN Returned(CacheSet(cache, userId,
                           [cache[userId] EXCEPT
                               !.status = IF responseStatus = "none" THEN "unknown"
                                          ELSE responseStatus,
                               !.lastChecked = now]),
                  <<"status">>)
    ELSE Returned(cache, <<"status">>)

\* A cached user is answered from the cache; any other is looked up with
\* checkUserStatus.
getVerificationStatus(cache, userId, reply, responseStatus) ==
    IF userId \in DOMAIN cache THEN Returned(cache, <<>>)
    ELSE checkUserStatus(cache, userId, reply, responseStatus)

\* The first copy registers the user as `user_${userId}`, the second as userId
\* (after a POST to the downstream, which is taken to succeed here).
generate(client, cache, userId, reply) ==
    IF client = 1 THEN getWebSDKLink(cache, <<"user_">> \o userId, reply)
    ELSE getWebSDKLink(cache, userId, reply)

\* Mutant: the link is requested whatever became of the reset.
reGenerateLinkRegardless(cache, userId, resetReply, linkReply) ==
    IF Falsy(userId) THEN Threw(cache, <<>>, "User ID is required for regeneration")
    ELSE LET reset == resetUserProfile(cache, userId, resetReply)
             link == getWebSDKLink(reset.cache, userId, linkReply)
         IN  [link EXCEPT !.requests = reset.requests \o @]

\* if (!userId) throw; await resetUserProfile(userId); await getWebSDKLink(levelName,
\* userId); a throw of either ends reGenerate.
reGenerate(cache, userId, resetReply, linkReply) ==
    IF Falsy(userId) THEN Threw(cache, <<>>, "User ID is required for regeneration")
    ELSE LET reset == resetUserProfile(cache, userId, resetReply)
         IN  IF reset.err # "none" THEN reset
             ELSE LET link == getWebSDKLink(reset.cache, userId, linkReply)
                  IN  [link EXCEPT !.requests = reset.requests \o @]

----------------------------------------------------------------------------
(* Server: the /sumsub-webhook endpoint *)

\* What the endpoint does with the verifier's promise.  server.js does not await it:
\* the promise is truthy whatever it settles with, so the check always passes.  The
\* other server awaits it: a rejection is thrown into the catch block.
SignatureGate(server, verified) ==
    IF server = "server.js" THEN "pass"
    ELSE IF verified = "true" THEN "pass" ELSE "throw"

\* After handleWebhookEvent settles: a rejection goes to the catch block, a result is
\* POSTed to the downstream (forwardToDjango, or axios.post to /verifications/).
AfterHandle(run) ==
    IF run.pc = "thrown" THEN Caught(run, run.err)
    ELSE IF run.pc = "returned"
         THEN [Step(run, "forward") EXCEPT !.pc = "awaitForward"]
         ELSE run

\* JSON.parse(rawBody), then handleWebhookEvent.
ParseAndHandle(run, cache) ==
    IF ~run.rawBody.parsable
    THEN [run |-> Caught(run, "SyntaxError"), cache |-> cache]
    ELSE LET res == handleWebhookEventCall(run, cache)
         IN  [run |-> AfterHandle(res.run), cache |-> res.cache]

\* The handler from the arrival of the request to its first await on I/O.
WebhookEndpoint(body, sig, readable, cache) ==
    LET secret == env.SUMSUB_WEBHOOK_SECRET
        r0 == [IdleRun EXCEPT !.pc = "start", !.rawBody = body, !.sig = sig,
                              !.readable = readable]
    IN  IF deploy.server = "server.js" /\ ~readable
        THEN [run |-> Respond(r0, 400), cache |-> cache]
        ELSE IF deploy.server = "server.js" /\ Falsy(secret)
        THEN [run |-> Caught(r0, "SUMSUB_WEBHOOK_SECRET is not configured"),
              cache |-> cache]
        ELSE IF env.DEBUG_WEBHOOK
        THEN ParseAndHandle(r0, cache)
        ELSE LET verified == verifyWebhookSignature(body, sig, secret)
                 r1 == [r0 EXCEPT !.verified = verified]
             IN  IF SignatureGate(deploy.server, verified) = "throw"
                 THEN [run |-> Caught(r1, verified), cache |-> cache]
                 ELSE ParseAndHandle(r1, cache)

\* The verifier's promise rejected and nothing handles it.
UnhandledRejection(run) ==
    /\ deploy.server = "server.js"
    /\ run.verified \notin {"none", "true"}

\* Whether forwardToDjango / the POST to /verifications/ carries a timeout.
ForwardHasTimeout(server) == server = "server.js"

\* The endpoint resumed by the reply to its own POST.  server.js outside debug mode
\* wraps the POST in a try block of its own: storeFailedWebhook, then 200.
ForwardResume(run, reply) ==
    IF Is2xx(reply) THEN Respond(run, 200)
    ELSE LET failed == [run EXCEPT !.failure = FailureKind(reply)]
         IN  IF deploy.server = "server.js" /\ ~env.DEBUG_WEBHOOK
             THEN Respond(Step(failed, "storeServer"), 200)
             ELSE Caught(failed, "Request failed")

----------------------------------------------------------------------------
(* State machine *)

RunIds == 1..MaxRuns

\* The x-payload-digest headers that arrive with a body: none, the digest under the
\* configured secret, and a digest of the same length under another key.
SigChoices(body) == {Unset} \cup {Hmac(k, body) : k \in Secrets}

StoreCalls(run) ==
    Cardinality({i \in 1..Len(run.trace) : run.trace[i] \in {"store", "storeServer"}})

\* The queue after a turn that took the run from old to new.
QueueAfter(old, new) ==
    IF StoreCalls(new) > StoreCalls(old)
    THEN storeFailedWebhook(failedWebhookQueue, new.rawBody.event)
    ELSE failedWebhookQueue

NoCall == [rawBody |-> Bodies[4], sig |-> Unset, secret |-> Unset]

NoNormalize == [client |-> 1, event |-> NoEvent]
NoOp ==
    [name |-> "none", userId |-> Unset, event |-> NoEvent, reply |-> "none",
     requests |-> <<>>, err |-> "none", waiting |-> {}]
\* No request to a link or admin endpoint has been handled.
NoApi ==
    [endpoint |-> "none", authorization |-> Unset, validate |-> "none",
     userId |-> Unset, cacheKey |-> Unset, status |-> 0, calls |-> <<>>,
     served |-> "none",
     data |-> "none", age |-> Never]
NoDispatch == [handler |-> "none", err |-> "none"]
NoResult == [err |-> "uncalled", payload |-> NoPayload, dispatch |-> NoDispatch]

Init ==
    /\ env \in [SUMSUB_WEBHOOK_SECRET : {Unset, <<"k1">>}, DEBUG_WEBHOOK : BOOLEAN]
    /\ deploy \in [server : Servers, client : Clients, unhandled : UnhandledModes]
    /\ verificationCache = <<>>
    /\ runs = [r \in RunIds |-> IdleRun]
    /\ failedWebhookQueue = {}
    /\ crashed = FALSE
    /\ vin = NoCall
    /\ vout = "none"
    /\ nin = NoNormalize
    /\ nout = NoResult
    /\ now = 0
    /\ op = NoOp
    /\ adminCache = <<>>
    /\ api = NoApi

\* A server that takes a request only when no run waits for a downstream call:
\* the lock across the call that the code does not have.
ArriveSerialized(r) ==
    /\ ~crashed
    /\ runs[r].pc = "idle"
    /\ \A q \in 1..(r - 1) : runs[q].pc # "idle"
    /\ \A q \in RunIds : runs[q].pc \notin {"awaitPost", "awaitInitiate", "awaitForward"}
    /\ \E body \in BodySet, readable \in BOOLEAN :
         \E sig \in SigChoices(body) :
            /\ readable \/ (deploy.server = "server.js" /\ body = Bodies[4]
                                                        /\ sig = Unset)
            /\ LET res == WebhookEndpoint(body, sig, readable, verificationCache)
               IN  /\ runs' = [runs EXCEPT ![r] = res.run]
                   /\ verificationCache' = res.cache
                   /\ failedWebhookQueue' = QueueAfter(runs[r], res.run)
                   /\ crashed' = (UnhandledRejection(res.run)
                                    /\ deploy.unhandled = "throw")
    /\ UNCHANGED <<env, deploy, vin, vout, nin, nout, now, op, adminCache, api>>

\* A webhook request arrives and its handler runs to its first await on I/O.
Arrive(r) ==
    /\ ~crashed
    /\ runs[r].pc = "idle"
    /\ \A q \in 1..(r - 1) : runs[q].pc # "idle"
    /\ \E body \in BodySet, readable \in BOOLEAN :
         \E sig \in SigChoices(body) :
            \* only server.js reads the body itself (getRawBody); a body that
            \* cannot be read has no content
            /\ readable \/ (deploy.server = "server.js" /\ body = Bodies[4]
                                                        /\ sig = Unset)
            /\ LET res == WebhookEndpoint(body, sig, readable, verificationCache)
               IN  /\ runs' = [runs EXCEPT ![r] = res.run]
                   /\ verificationCache' = res.cache
                   /\ failedWebhookQueue' = QueueAfter(runs[r], res.run)
                   /\ crashed' = (UnhandledRejection(res.run)
                                    /\ deploy.unhandled = "throw")
    /\ UNCHANGED <<env, deploy, vin, vout, nin, nout, now, op, adminCache, api>>

\* The replies a POST can get: a timeout only where the call sets one.
RepliesFor(hasTimeout) == IF hasTimeout THEN Replies ELSE Replies \ {"timeout"}

\* The downstream answers the POST of handleWebhookEvent.
PostReply(r) ==
    /\ ~crashed
    /\ runs[r].pc = "awaitPost"
    /\ \E reply \in RepliesFor(PostHasTimeout(deploy.client)) :
         LET res == handleWebhookEventResume(runs[r], reply, verificationCache)
             run == AfterHandle(res.run)
         IN  /\ runs' = [runs EXCEPT ![r] = run]
             /\ verificationCache' = res.cache
             /\ failedWebhookQueue' = QueueAfter(runs[r], run)
    /\ UNCHANGED <<env, deploy, crashed, vin, vout, nin, nout, now, op, adminCache, api>>

\* The POST of handleNewApplicant passes headers only: no timeout is set.
InitiateHasTimeout == FALSE

\* The downstream answers the POST of handleNewApplicant.
InitiateReply(r) ==
    /\ ~crashed
    /\ runs[r].pc = "awaitInitiate"
    /\ \E reply \in RepliesFor(InitiateHasTimeout) :
         LET run == AfterHandle(handleNewApplicantResume(runs[r], reply))
         IN  /\ runs' = [runs EXCEPT ![r] = run]
             /\ failedWebhookQueue' = QueueAfter(runs[r], run)
    /\ UNCHANGED <<env, deploy, verificationCache, crashed, vin, vout, nin, nout, now, op, adminCache, api>>

\* The downstream answers the endpoint's own POST.
ForwardReply(r) ==
    /\ ~crashed
    /\ runs[r].pc = "awaitForward"
    /\ \E reply \in RepliesFor(ForwardHasTimeout(deploy.server)) :
         LET run == ForwardResume(runs[r], reply)
         IN  /\ runs' = [runs EXCEPT ![r] = run]
             /\ failedWebhookQueue' = QueueAfter(runs[r], run)
    /\ UNCHANGED <<env, deploy, verificationCache, crashed, vin, vout, nin, nout, now, op, adminCache, api>>

Next ==
    \E r \in RunIds :
        \/ Arrive(r)
        \/ PostReply(r)
        \/ InitiateReply(r)
        \/ ForwardReply(r)

Spec == Init /\ [][Next]_vars

----------------------------------------------------------------------------
(* The verifier called directly, on every payload, signature and secret *)

CallSigs ==
    {Unset} \cup {Hmac(k, b) : k \in Secrets, b \in BodySet}
            \cup {Hmac(k, b) \o <<"x">> : k \in Secrets, b \in BodySet}

InitVerify ==
    /\ env = [SUMSUB_WEBHOOK_SECRET |-> Unset, DEBUG_WEBHOOK |-> FALSE]
    /\ deploy = [server |-> "part_001", client |-> 1, unhandled |-> "warn"]
    /\ verificationCache = <<>>
    /\ runs = [r \in RunIds |-> IdleRun]
    /\ failedWebhookQueue = {}
    /\ crashed = FALSE
    /\ vin \in [rawBody : BodySet, sig : CallSigs, secret : Secrets \cup {Unset}]
    /\ vout = "none"
    /\ nin = NoNormalize
    /\ nout = NoResult
    /\ now = 0
    /\ op = NoOp
    /\ adminCache = <<>>
    /\ api = NoApi

VerifyCall ==
    /\ vout = "none"
    /\ vout' = verifyWebhookSignature(vin.rawBody, vin.sig, vin.secret)
    /\ UNCHANGED <<env, deploy, verificationCache, runs, failedWebhookQueue,
                   crashed, vin, nin, nout, now, op, adminCache, api>>

NextVerify == VerifyCall

SpecVerify == InitVerify /\ [][NextVerify]_vars

----------------------------------------------------------------------------
(* The normalization of handleWebhookEvent, on every event *)

\* Applicant identifiers: every string of at most MaxIdLen tokens, the marker among
\* them, and the absent identifier.
IdTokens == {"a", "b", Marker}
ApplicantIds == UNION {[1..n -> IdTokens] : n \in 0..MaxIdLen} \cup {Undefined}

EventTypes ==
    {"applicantCreated", "applicantPending", "applicantOnHold", "applicantReviewed",
     "applicantReset"}
ReviewStatuses == {"none", "completed", "rejected", "init"}
RejectLabelLists == {Undefined, <<>>, <<"FORGERY", "BLURRY">>}

Events ==
    [type : EventTypes, applicantId : ApplicantIds, reviewStatus : ReviewStatuses,
     rejectLabels : RejectLabelLists]

InitNormalize ==
    /\ env = [SUMSUB_WEBHOOK_SECRET |-> Unset, DEBUG_WEBHOOK |-> FALSE]
    /\ deploy = [server |-> "part_001", client |-> 1, unhandled |-> "warn"]
    /\ verificationCache = <<>>
    /\ runs = [r \in RunIds |-> IdleRun]
    /\ failedWebhookQueue = {}
    /\ crashed = FALSE
    /\ vin = NoCall
    /\ vout = "none"
    /\ nin \in [client : Clients, event : Events]
    /\ nout = NoResult
    /\ now = 0
    /\ op = NoOp
    /\ adminCache = <<>>
    /\ api = NoApi

\* What handleWebhookEvent makes of an event: the payload it builds (a missing
\* applicantId throws a TypeError first) and the branch processWebhookEvent takes
\* once the payload has been delivered.
NormalizeCall ==
    /\ nout = NoResult
    /\ nout' = IF nin.event.applicantId = Undefined
               THEN [err |-> "TypeError", payload |-> NoPayload,
                     dispatch |-> NoDispatch]
               ELSE [err |-> "none",
                     payload |-> webhookPayload(nin.client, nin.event),
                     dispatch |-> processWebhookEvent(nin.client, nin.event.type,
                                                      nin.event.reviewStatus)]
    /\ UNCHANGED <<env, deploy, verificationCache, runs, failedWebhookQueue,
                   crashed, vin, vout, nin, now, op, adminCache, api>>

NextNormalize == NormalizeCall

SpecNormalize == InitNormalize /\ [][NextNormalize]_vars

----------------------------------------------------------------------------
(* The cache under the operations of the client, one operation at a time *)

\* The user ids the operations are called with; the empty id goes to the two
\* operations that test for it.
Users == {<<"u1">>}
CacheEvents == {EvReviewed, EvCreated}

InitCache ==
    /\ env = [SUMSUB_WEBHOOK_SECRET |-> <<"k1">>, DEBUG_WEBHOOK |-> FALSE]
    /\ deploy \in [server : {"part_001"}, client : Clients, unhandled : {"warn"}]
    /\ verificationCache = <<>>
    /\ runs = [r \in RunIds |-> IdleRun]
    /\ failedWebhookQueue = {}
    /\ crashed = FALSE
    /\ vin = NoCall
    /\ vout = "none"
    /\ nin = NoNormalize
    /\ nout = NoResult
    /\ now = 0
    /\ op = NoOp
    /\ adminCache = <<>>
    /\ api = NoApi

Tick ==
    /\ now < MaxClock
    /\ now' = now + 1
    /\ UNCHANGED <<env, deploy, verificationCache, runs, failedWebhookQueue,
                   crashed, vin, vout, nin, nout, op, adminCache, api>>

\* What an operation on the cache leaves alone.
cacheRest ==
    <<env, deploy, runs, failedWebhookQueue, crashed, vin, vout, nin, nout, now,
      adminCache, api>>

\* The webhook runs that wait for the reply to their POST.
Waiting == {r \in RunIds : runs[r].pc = "awaitPost"}

\* The record of an operation: its name and argument, the first answer it got,
\* what it did, and the webhook runs that were waiting when it ended.
OpRecord(name, userId, event, reply, res) ==
    [name |-> name, userId |-> userId, event |-> event, reply |-> reply,
     requests |-> res.requests, err |-> res.err, waiting |-> Waiting]

\* Each operation runs from its call to its return.
Generate(u) ==
    /\ \E reply \in ProviderReplies :
          LET res == generate(deploy.client, verificationCache, u, reply)
          IN  /\ verificationCache' = res.cache
              /\ op' = OpRecord("generate", u, NoEvent, reply, res)
    /\ UNCHANGED cacheRest

ReGenerate(u) ==
    /\ \E resetReply \in ProviderReplies, linkReply \in ProviderReplies :
          LET res == reGenerate(verificationCache, u, resetReply, linkReply)
          IN  /\ verificationCache' = res.cache
              /\ op' = OpRecord("reGenerate", u, NoEvent, resetReply, res)
    /\ UNCHANGED cacheRest

CheckUserStatus(u) ==
    /\ \E reply \in ProviderReplies, responseStatus \in {"none", "completed"} :
          LET res == checkUserStatus(verificationCache, u, reply, responseStatus)
          IN  /\ verificationCache' = res.cache
              /\ op' = OpRecord("checkUserStatus", u, NoEvent, reply, res)
    /\ UNCHANGED cacheRest

GetVerificationStatus(u) ==
    /\ \E reply \in ProviderReplies, responseStatus \in {"none", "completed"} :
          LET res == getVerificationStatus(verificationCache, u, reply, responseStatus)
          IN  /\ verificationCache' = res.cache
              /\ op' = OpRecord("getVerificationStatus", u, NoEvent, reply, res)
    /\ UNCHANGED cacheRest

ResetUserProfile(u) ==
    /\ \E reply \in ProviderReplies :
          LET res == resetUserProfile(verificationCache, u, reply)
          IN  /\ verificationCache' = res.cache
              /\ op' = OpRecord("resetUserProfile", u, NoEvent, reply, res)
    /\ UNCHANGED cacheRest

WebhookEvent(event) ==
    /\ \E reply \in Replies :
          /\ verificationCache' = handleWebhookEvent(event, reply, verificationCache)
          /\ op' = [name |-> "handleWebhookEvent", userId |-> Unset, event |-> event,
                    reply |-> reply, requests |-> <<"post">>, err |-> "none",
                    waiting |-> Waiting]
    /\ UNCHANGED cacheRest

NextCache ==
    \/ Tick
    \/ \E u \in Users :
          \/ Generate(u)
          \/ CheckUserStatus(u)
          \/ GetVerificationStatus(u)
    \/ \E u \in Users \cup {Unset} :
          \/ ReGenerate(u)
          \/ ResetUserProfile(u)
    \/ \E event \in CacheEvents : WebhookEvent(event)

SpecCache == InitCache /\ [][NextCache]_vars

-----------------------------------------------------------------------------
(* Profile resets while webhook requests are in flight *)

\* The webhook endpoint and resetUserProfile share one verificationCache: a reset
\* runs to its end between two turns of the webhook runs.
InitReset ==
    /\ env = [SUMSUB_WEBHOOK_SECRET |-> <<"k1">>, DEBUG_WEBHOOK |-> FALSE]
    /\ deploy \in [server : Servers, client : Clients, unhandled : {"warn"}]
    /\ verificationCache = <<>>
    /\ runs = [r \in RunIds |-> IdleRun]
    /\ failedWebhookQueue = {}
    /\ crashed = FALSE
    /\ vin = NoCall
    /\ vout = "none"
    /\ nin = NoNormalize
    /\ nout = NoResult
    /\ now = 0
    /\ op = NoOp
    /\ adminCache = <<>>
    /\ api = NoApi

NextReset ==
    \/ \E r \in RunIds :
          \/ Arrive(r)
          \/ PostReply(r)
          \/ InitiateReply(r)
          \/ ForwardReply(r)
    \/ \E u \in Users : ResetUserProfile(u)

SpecReset == InitReset /\ [][NextReset]_vars

----------------------------------------------------------------------------
(* Server: the link endpoints and authenticateUser *)

\* The three servers of the repository; part_000 is server.js with another
\* authenticateUser and other link endpoints.
ApiServers == Servers \cup {"part_000"}

\* Authorization headers, split at the spaces: none, another scheme, the scheme
\* alone, a bearer token, and 'Bearer  t1' with two spaces.
Authorizations ==
    {Undefined, <<"Basic", "t1">>, <<"Bearer">>, <<"Bearer", "t1">>,
     <<"Bearer", "", "t1">>}

\* Answers of the token-validation endpoint; axios rejects on all but a 2xx.
ValidateReplies == {"200", "204", "401", "network"}

\* authHeader?.startsWith('Bearer ')
startsWithBearer(authHeader) ==
    authHeader # Undefined /\ Len(authHeader) >= 2 /\ authHeader[1] = "Bearer"

\* authHeader.split(' ')[1]
tokenOf(authHeader) == authHeader[2]

\* authenticateUser: server.js asks the token-validation endpoint about whatever
\* follows the first space; part_000 only requires that to be non-empty.
authenticateUser(server, authHeader, validateReply) ==
    IF ~startsWithBearer(authHeader)
    THEN [pass |-> FALSE, calls |-> <<>>]
    ELSE IF server = "part_000"
    THEN [pass |-> tokenOf(authHeader) # "", calls |-> <<>>]
    ELSE [pass |-> validateReply = "200", calls |-> <<"validate">>]

\* The middleware in front of the link routes: part_001 registers none.
linkMiddleware(server, authHeader, validateReply) ==
    IF server = "part_001" THEN [pass |-> TRUE, calls |-> <<>>]
    ELSE authenticateUser(server, authHeader, validateReply)

\* What generate is called with: server.js passes the object sumsubPayload, which
\* the template string of generate turns into '[object Object]'.
generateArgument(server, userId) ==
    IF server = "server.js" THEN <<"[object Object]">> ELSE userId

\* POST /api/generate-sumsub-link and /api/regenerate-sumsub-link, from the
\* middleware to the response: the status, the calls made and the cache left.
linkRoute(server, endpoint, authHeader, validateReply, userId, djangoReply, resetReply, linkReply, cache) ==
    LET auth == linkMiddleware(server, authHeader, validateReply)
        Answer(status, calls, c) == [status |-> status, calls |-> calls, cache |-> c]
    IN  IF ~auth.pass THEN Answer(401, auth.calls, cache)
        ELSE IF server # "part_001" /\ Falsy(userId)
        THEN Answer(400, auth.calls, cache)
        ELSE IF endpoint = "generate"
        THEN IF server = "server.js" /\ djangoReply # "ok"
             THEN Answer(400, auth.calls \o <<"django">>, cache)
             ELSE LET res == generate(deploy.client, cache,
                                      generateArgument(server, userId), linkReply)
                      django == IF server = "server.js" THEN <<"django">> ELSE <<>>
                  IN  Answer(IF res.err = "none" THEN 200 ELSE 500,
                             auth.calls \o django \o <<"generate">> \o res.requests,
                             res.cache)
        ELSE LET res == reGenerate(cache, userId, resetReply, linkReply)
             IN  Answer(IF res.err = "none" THEN 200 ELSE 500,
                        auth.calls \o <<"reGenerate">> \o res.requests, res.cache)

InitLink ==
    /\ env = [SUMSUB_WEBHOOK_SECRET |-> <<"k1">>, DEBUG_WEBHOOK |-> FALSE]
    /\ deploy \in [server : ApiServers, client : {1}, unhandled : {"warn"}]
    /\ verificationCache = <<>>
    /\ runs = [r \in RunIds |-> IdleRun]
    /\ failedWebhookQueue = {}
    /\ crashed = FALSE
    /\ vin = NoCall
    /\ vout = "none"
    /\ nin = NoNormalize
    /\ nout = NoResult
    /\ now = 0
    /\ op = NoOp
    /\ adminCache = <<>>
    /\ api = NoApi

\* A request to one of the two link endpoints is handled to its response.
LinkRequest(endpoint) ==
    /\ \E authHeader \in Authorizations, validateReply \in ValidateReplies,
          userId \in Users \cup {Undefined},
          djangoReply \in ProviderReplies, resetReply \in ProviderReplies,
          linkReply \in ProviderReplies :
          LET res == linkRoute(deploy.server, endpoint, authHeader, validateReply,
                               userId, djangoReply, resetReply, linkReply,
                               verificationCache)
          IN  /\ verificationCache' = res.cache
              /\ api' = [NoApi EXCEPT !.endpoint = endpoint,
                                      !.authorization = authHeader,
                                      !.validate = validateReply,
                                      !.userId = userId,
                                      !.status = res.status,
                                      !.calls = res.calls]
    /\ UNCHANGED <<env, deploy, runs, failedWebhookQueue, crashed, vin, vout, nin,
                   nout, now, op, adminCache>>

NextLink == \E endpoint \in {"generate", "regenerate"} : LinkRequest(endpoint)

SpecLink == InitLink /\ [][NextLink]_vars

-----------------------------------------------------------------------------
(* Server: the admin endpoints and their memo *)

\* Date.now() - cached.timestamp < 30000
CacheTtl == 30000

\* The clock of the admin endpoints advances in steps of TickMs, up to MaxAdminClock.
TickMs == 10000
MaxAdminClock == 40000

\* 'all_verifications' and `verification_${userId}`
AdminKeys == {<<"all_verifications">>, <<"verification_", "u1">>}

\* What the downstream answers to a fetch.
AdminData == {"d1", "d2"}

\* server.js and part_000 keep a memo; part_001 fetches every time.
HasMemo(server) == server # "part_001"

\* Mutant: an entry is still served when it is exactly CacheTtl old.
adminRouteServeAtTtl(server, cacheKey, fetchReply, data, memo) ==
    IF /\ HasMemo(server)
       /\ cacheKey \in DOMAIN memo
       /\ now - memo[cacheKey].timestamp <= CacheTtl
    THEN [served |-> "cache", status |-> 200, data |-> memo[cacheKey].data,
          age |-> now - memo[cacheKey].timestamp, calls |-> <<>>, memo |-> memo]
    ELSE IF fetchReply # "ok"
    THEN [served |-> "error", status |-> 500, data |-> "none", age |-> Never,
          calls |-> <<"fetch">>, memo |-> memo]
    ELSE [served |-> "fetch", status |-> 200, data |-> data, age |-> Never,
          calls |-> <<"fetch">>,
          memo |-> IF HasMemo(server)
                   THEN CacheSet(memo, cacheKey, [data |-> data, timestamp |-> now])
                   ELSE memo]

\* GET /admin/verifications and /admin/verifications/:userId: a memo entry younger
\* than CacheTtl is answered as it is; otherwise the downstream is asked, and its
\* answer is stored with the time and sent.  A failed fetch stores nothing.
adminRoute(server, cacheKey, fetchReply, data, memo) ==
    IF /\ HasMemo(server)
       /\ cacheKey \in DOMAIN memo
       /\ now - memo[cacheKey].timestamp < CacheTtl
    THEN [served |-> "cache", status |-> 200, data |-> memo[cacheKey].data,
          age |-> now - memo[cacheKey].timestamp, calls |-> <<>>, memo |-> memo]
    ELSE IF fetchReply # "ok"
    THEN [served |-> "error", status |-> 500, data |-> "none", age |-> Never,
          calls |-> <<"fetch">>, memo |-> memo]
    ELSE [served |-> "fetch", status |-> 200, data |-> data, age |-> Never,
          calls |-> <<"fetch">>,
          memo |-> IF HasMemo(server)
                   THEN CacheSet(memo, cacheKey, [data |-> data, timestamp |-> now])
                   ELSE memo]

InitAdmin ==
    /\ env = [SUMSUB_WEBHOOK_SECRET |-> <<"k1">>, DEBUG_WEBHOOK |-> FALSE]
    /\ deploy \in [server : ApiServers, client : {1}, unhandled : {"warn"}]
    /\ verificationCache = <<>>
    /\ runs = [r \in RunIds |-> IdleRun]
    /\ failedWebhookQueue = {}
    /\ crashed = FALSE
    /\ vin = NoCall
    /\ vout = "none"
    /\ nin = NoNormalize
    /\ nout = NoResult
    /\ now = 0
    /\ op = NoOp
    /\ adminCache = <<>>
    /\ api = NoApi

\* Time passes between two requests.
AdminTick ==
    /\ now + TickMs <= MaxAdminClock
    /\ now' = now + TickMs
    /\ UNCHANGED <<env, deploy, verificationCache, runs, failedWebhookQueue,
                   crashed, vin, vout, nin, nout, op, adminCache, api>>

\* A request to an admin endpoint is handled to its response.
AdminRequest(cacheKey) ==
    /\ \E fetchReply \in ProviderReplies, data \in AdminData :
          LET res == adminRoute(deploy.server, cacheKey, fetchReply, data, adminCache)
          IN  /\ adminCache' = res.memo
              /\ api' = [NoApi EXCEPT !.endpoint = "admin",
                                      !.cacheKey = cacheKey,
                                      !.status = res.status,
                                      !.calls = res.calls,
                                      !.served = res.served,
                                      !.data = res.data,
                                      !.age = res.age]
    /\ UNCHANGED <<env, deploy, verificationCache, runs, failedWebhookQueue,
                   crashed, vin, vout, nin, nout, now, op>>

NextAdmin ==
    \/ AdminTick
    \/ \E cacheKey \in AdminKeys : AdminRequest(cacheKey)

SpecAdmin == InitAdmin /\ [][NextAdmin]_vars

-----------------------------------------------------------------------------
(* Properties *)

Has(run, label) == \E i \in 1..Len(run.trace) : run.trace[i] = label
Count(run, label) == Cardinality({i \in 1..Len(run.trace) : run.trace[i] = label})
Before(run, a, b) ==
    \E i, j \in 1..Len(run.trace) : i < j /\ run.trace[i] = a /\ run.trace[j] = b

Arrived(run) == run.pc # "idle" /\ run.readable
SecretSet == ~Falsy(env.SUMSUB_WEBHOOK_SECRET)
\* The claimed signature is the digest of the body under the configured secret.
SignatureMatches(run) == run.sig = Hmac(env.SUMSUB_WEBHOOK_SECRET, run.rawBody)
Authenticated(run) == Arrived(run) /\ SecretSet /\ SignatureMatches(run)
Normalizable(run) == run.rawBody.parsable /\ run.rawBody.event.applicantId # Undefined
DeliveryFailed(run) == run.postReply \notin {"none", "200", "201"}

\* C1: with a secret configured and the debug bypass off, a request whose claimed
\* signature differs from the HMAC of its body never reaches handleWebhookEvent,
\* the cache or the downstream, and ends rejected.
C1_BadSignatureStopsRun ==
    \A r \in RunIds :
        (/\ Arrived(runs[r]) /\ SecretSet /\ ~env.DEBUG_WEBHOOK
         /\ ~Falsy(runs[r].sig) /\ ~SignatureMatches(runs[r]))
        => /\ ~Has(runs[r], "handle")
           /\ ~Has(runs[r], "post")
           /\ ~Has(runs[r], "cache")
           /\ runs[r].pc = "done"
           /\ runs[r].status \in {400, 403}

C4_AcceptedWhateverDownstream ==
    \A r \in RunIds :
        (/\ Authenticated(runs[r]) /\ Normalizable(runs[r])
         /\ runs[r].pc = "done")
        => runs[r].status = 200

\* C5: after a run whose downstream delivery failed with a network error, a timeout
\* or a 5xx, the pending failed webhooks contain an entry for that event.
C5_FailedDeliveryRecorded ==
    \A r \in RunIds :
        (/\ Authenticated(runs[r]) /\ runs[r].pc = "done"
         /\ runs[r].failure \in {"5xx", "network", "timeout"})
        => runs[r].rawBody.event \in listPending(failedWebhookQueue)

\* Whether the endpoint's own POST carries the event: the first copy returns the
\* cached verificationData (with originalEvent) as part of its result.
ForwardCarriesEvent == deploy.client = 1

DeliveryCalls(run) ==
    Count(run, "post") + IF ForwardCarriesEvent THEN Count(run, "forward") ELSE 0

\* C6: within one request (here: an authenticated one) at most one POST carrying
\* the event is made to the downstream.
C6_AtMostOneDelivery ==
    \A r \in RunIds : Authenticated(runs[r]) => DeliveryCalls(runs[r]) <= 1

\* C7: with the secret unset and the debug bypass off, the verifier reports no pass
\* and no event reaches handleWebhookEvent, the cache or the downstream.
C7_UnsetSecretFailsClosed ==
    (~SecretSet /\ ~env.DEBUG_WEBHOOK)
    => \A r \in RunIds :
           /\ runs[r].verified # "true"
           /\ ~Has(runs[r], "handle")
           /\ ~Has(runs[r], "post")
           /\ ~Has(runs[r], "cache")

\* C8: a request with a mismatching signature, or with none, is answered with an
\* authentication failure and never with a success status.
C8_BadSignatureForbidden ==
    \A r \in RunIds :
        (/\ Arrived(runs[r]) /\ SecretSet /\ ~env.DEBUG_WEBHOOK
         /\ ~SignatureMatches(runs[r]) /\ runs[r].pc = "done")
        => runs[r].status \in {400, 403}

C11_MalformedPayloadRejected ==
    \A r \in RunIds :
        (/\ Authenticated(runs[r]) /\ ~runs[r].rawBody.parsable
         /\ runs[r].pc = "done")
        => runs[r].status \in 400..499

\* What follows the first occurrence of the marker in s.
AfterFirstMarker(s) ==
    LET i == CHOOSE k \in 1..Len(s) :
                 s[k] = Marker /\ \A j \in 1..(k - 1) : s[j] # Marker
    IN  SubSeq(s, i + 1, Len(s))

Normalized == nout.err = "none"

\* C12: the subject id recovered from an applicant identifier that contains the
\* marker is everything after the marker's first occurrence, also when the marker
\* occurs again; from an identifier without the marker it is the identifier.
\* (Identifiers that end with their first marker are left to C13.)
C12_SubjectIsRemainderAfterFirstMarker ==
    LET applicantId == nin.event.applicantId
    IN  (Normalized /\ (Includes(applicantId) => AfterFirstMarker(applicantId) # <<>>))
        => nout.payload.externalUserId
              = IF Includes(applicantId) THEN AfterFirstMarker(applicantId)
                ELSE applicantId

\* C13: an event that is POSTed to the downstream or cached has a non-empty subject
\* id, and no record is cached under the empty key: an applicant identifier that
\* ends with its marker is rejected before either.
C13_SubjectNeverEmpty ==
    /\ \A r \in RunIds :
          (Authenticated(runs[r]) /\ (Has(runs[r], "post") \/ Has(runs[r], "cache")))
          => runs[r].ext # <<>>
    /\ <<>> \notin DOMAIN verificationCache

\* The review outcome the dispatch stands for.
Outcome(dispatch) ==
    CASE dispatch.handler = "handleCompletedVerification" -> "Approved"
      [] dispatch.handler = "handleRejectedVerification" -> "Rejected"
      [] OTHER -> "Unknown"

\* C14: of the events with a subject id, the created, pending and on-hold ones are
\* processed to completion; a reviewed event is processed as Approved when its review status is 'completed', as Rejected
\* when it is 'rejected', and as Unknown otherwise.
C14_KnownTypesClassified ==
    LET type == nin.event.type
        status == nin.event.reviewStatus
    IN  (Normalized /\ nout.payload.externalUserId # <<>>)
        => /\ (type \in {"applicantCreated", "applicantPending", "applicantOnHold"}
                  => nout.dispatch.err = "none")
           /\ (type = "applicantReviewed"
                  => /\ nout.dispatch.err = "none"
                     /\ Outcome(nout.dispatch)
                           = CASE status = "completed" -> "Approved"
                               [] status = "rejected" -> "Rejected"
                               [] OTHER -> "Unknown")

KnownTypes ==
    {"applicantCreated", "applicantPending", "applicantOnHold", "applicantReviewed"}

\* C15: an authenticated event whose type is none of the four known ones is neither
\* POSTed to the downstream nor cached, and once its run has ended the pending
\* entries hold one for it.
C15_UnknownTypeQuarantined ==
    \A r \in RunIds :
        (/\ Authenticated(runs[r]) /\ Normalizable(runs[r])
         /\ runs[r].rawBody.event.type \notin KnownTypes)
        => /\ ~Has(runs[r], "post")
           /\ ~Has(runs[r], "cache")
           /\ runs[r].ext \notin DOMAIN verificationCache
           /\ (runs[r].pc = "done"
                  => runs[r].rawBody.event \in listPending(failedWebhookQueue))

\* C16: the reject labels the payload of a rejected review carries are those of the
\* event, in their order; the payload of a completed or rejected review whose event
\* has no label list carries the empty list, never an absent one.
C16_RejectionReasonsNeverMissing ==
    LET event == nin.event
    IN  (/\ Normalized /\ nout.payload.externalUserId # <<>>
         /\ event.type = "applicantReviewed")
        => /\ (event.reviewStatus = "rejected" /\ event.rejectLabels # Undefined
                  => nout.payload.rejectLabels = event.rejectLabels)
           /\ (event.reviewStatus \in {"completed", "rejected"}
                  /\ event.rejectLabels = Undefined
                  => nout.payload.rejectLabels = <<>>)

\* The review status a cached record carries: reviewStatus in a record of the first
\* copy, status in a record of the second.
RecordStatus(record) ==
    IF record.reviewStatus # "none" THEN record.reviewStatus ELSE record.status

\* C17: in the turn in which a run caches its event, the key written is the subject
\* id the run recovered from the applicant identifier, which is also the
\* externalUserId of the payload it POSTed; the record under that key carries that
\* subject id, the event's type and the event's review status, and no other key is
\* written.
C17_KeyAndDeliveredSubjectAgree ==
    [][\A r \in RunIds :
          (~Has(runs[r], "cache") /\ Has(runs'[r], "cache"))
          => LET run == runs'[r]
                 event == run.rawBody.event
                 subject == externalUserId(deploy.client, event.applicantId)
             IN  /\ run.payload.externalUserId = subject
                 /\ subject \in DOMAIN verificationCache'
                 /\ verificationCache'[subject].externalUserId = subject
                 /\ verificationCache'[subject].type = event.type
                 /\ (event.reviewStatus # "none"
                        => RecordStatus(verificationCache'[subject]) = event.reviewStatus)
                 /\ \A k \in DOMAIN verificationCache' \ {subject} :
                        /\ k \in DOMAIN verificationCache
                        /\ verificationCache'[k] = verificationCache[k]]_vars

C17_Witness ==
    \E r \in RunIds :
        /\ Authenticated(runs[r])
        /\ runs[r].rawBody.event = EvReviewed
        /\ runs[r].pc = "done" /\ runs[r].status = 200 /\ runs[r].err = "none"
        /\ Has(runs[r], "post") /\ Has(runs[r], "cache")
        /\ runs[r].payload.externalUserId = <<"u1">>
        /\ <<"u1">> \in DOMAIN verificationCache
        /\ verificationCache[<<"u1">>].type = "applicantReviewed"
        /\ RecordStatus(verificationCache[<<"u1">>]) = "completed"

\* The user a cache key belongs to: generate of the first copy prefixes the user's
\* id with 'user_'.
SubjectOf(key) ==
    IF Len(key) > 0 /\ key[1] = "user_" THEN Tail(key) ELSE key

RecordsOf(u) == {k \in DOMAIN verificationCache : SubjectOf(k) = u}

\* C18: whatever sequence of generate, reGenerate, checkUserStatus,
\* resetUserProfile and webhook events has been applied, the cache holds at most
\* one record for each user.
C18_OneRecordPerSubject ==
    \A u \in Users : Cardinality(RecordsOf(u)) <= 1

\* The time of a record's last update: processedAt in a record of the first copy,
\* receivedAt in a record of the second.
UpdatedAt(record) ==
    IF record.processedAt # Never THEN record.processedAt ELSE record.receivedAt

\* This step applies a webhook event and caches it.
EventCached ==
    /\ op'.name = "handleWebhookEvent"
    /\ now' = now
    /\ Is2xx(op'.reply) /\ (deploy.client = 2 => op'.reply = "200")

AppliedSubject == externalUserId(deploy.client, op'.event.applicantId)

\* C19: when a webhook event is cached for a subject that has a record already,
\* the new record keeps the createdAt of the old one, carries the type and review
\* status of this event, and its time of last update is the present time.
C19_CreatedAtPreserved ==
    [][(EventCached /\ AppliedSubject \in DOMAIN verificationCache)
       => LET old == verificationCache[AppliedSubject]
              new == verificationCache'[AppliedSubject]
              event == op'.event
          IN  /\ new.createdAt = old.createdAt
              /\ new.type = event.type
              /\ (event.reviewStatus # "none" => RecordStatus(new) = event.reviewStatus)
              /\ UpdatedAt(new) = now]_vars

\* A record without its time of last update.
ModuloUpdatedAt(record) == [record EXCEPT !.processedAt = Never, !.receivedAt = Never]

\* C20: when the event cached in this step is the one the previous operation
\* cached, answered alike by the downstream, the subject's record is afterwards
\* what it was before, except for the time of its last update.
C20_ReplayLeavesRecord ==
    [][(EventCached /\ op' = op /\ AppliedSubject \in DOMAIN verificationCache)
       => ModuloUpdatedAt(verificationCache'[AppliedSubject])
             = ModuloUpdatedAt(verificationCache[AppliedSubject])]_vars

\* This step is a call of the named operation (the clock stands still in it).
OpStep(name) == op'.name = name /\ now' = now

\* C21: a resetUserProfile(u) whose request to the provider succeeds leaves the cache
\* without a record for u and with every other record as it was; one whose request
\* fails, or that is given no user id, leaves the cache as it was.
C21_ResetEvictsOnSuccessOnly ==
    [][OpStep("resetUserProfile")
       => IF op'.err = "none"
          THEN /\ op'.reply = "ok"
               /\ op'.userId \notin DOMAIN verificationCache'
               /\ DOMAIN verificationCache' = DOMAIN verificationCache \ {op'.userId}
               /\ \A k \in DOMAIN verificationCache' :
                      verificationCache'[k] = verificationCache[k]
          ELSE /\ (op'.reply # "ok" \/ op'.userId = Unset)
               /\ verificationCache' = verificationCache]_vars

C21_Witness ==
    /\ op.name = "resetUserProfile" /\ op.userId = <<"u1">>
    /\ op.reply = "ok" /\ op.err = "none"
    /\ <<"u1">> \notin DOMAIN verificationCache
    /\ verificationCache # <<>>

\* C22: a key of the cache disappears only in a resetUserProfile, alone or as the
\* first step of reGenerate, that was called for that key and whose reset request
\* succeeded; generate, checkUserStatus, getVerificationStatus and webhook events
\* never remove a record.
C22_OnlyResetRemoves ==
    [][\A k \in DOMAIN verificationCache :
          k \notin DOMAIN verificationCache'
          => /\ op'.name \in {"resetUserProfile", "reGenerate"}
             /\ op'.userId = k
             /\ op'.reply = "ok"
             /\ op'.requests # <<>> /\ op'.requests[1] = "reset"]_vars

C22_Witness ==
    /\ op.name = "checkUserStatus" /\ op.userId = <<"u1">> /\ op.err = "none"
    /\ <<"u1">> \in DOMAIN verificationCache
    /\ verificationCache[<<"u1">>].lastChecked # Never
    /\ verificationCache[<<"u1">>].status = "unknown"

\* C23: a getVerificationStatus(u) that misses the cache and whose status request to
\* the provider succeeds leaves a record for u in the cache.
C23_MissPopulatesCache ==
    [][(/\ OpStep("getVerificationStatus")
        /\ op'.userId \notin DOMAIN verificationCache
        /\ op'.requests = <<"status">> /\ op'.reply = "ok" /\ op'.err = "none")
       => op'.userId \in DOMAIN verificationCache']_vars

\* Run r writes the cache in this step.
Writes(r) == ~Has(runs[r], "cache") /\ Has(runs'[r], "cache")

\* C24: every step leaves each cached record either as it was or equal, field for
\* field, to the record of a run that writes the cache in that step; so the record
\* of a subject is always the one of the run that wrote it last, also when another
\* run for the same subject was in flight.
C24_LastWriterWinsWhole ==
    [][\A k \in DOMAIN verificationCache' :
          \/ k \in DOMAIN verificationCache
                /\ verificationCache'[k] = verificationCache[k]
          \/ \E r \in RunIds :
                /\ Writes(r)
                /\ runs'[r].ext = k
                /\ verificationCache'[k]
                      = VerificationData(deploy.client, runs'[r].payload,
                                         runs'[r].postReply)]_vars

\* Both runs cached for the subject u1; the record is the one of the run that
\* arrived first, so the other arrived and wrote while the first was in flight.
C24_Witness ==
    /\ Authenticated(runs[1]) /\ Authenticated(runs[2])
    /\ runs[1].rawBody.event = EvCreated /\ runs[2].rawBody.event = EvReviewed
    /\ Has(runs[1], "cache") /\ Has(runs[2], "cache")
    /\ runs[1].ext = <<"u1">> /\ runs[2].ext = <<"u1">>
    /\ verificationCache[<<"u1">>]
          = VerificationData(deploy.client, runs[1].payload, runs[1].postReply)
    /\ verificationCache[<<"u1">>].type = "applicantCreated"

\* The step a run is waiting to take can be taken.
CanProceed(r) ==
    CASE runs[r].pc = "idle" -> ENABLED Arrive(r)
      [] runs[r].pc = "awaitPost" -> ENABLED PostReply(r)
      [] runs[r].pc = "awaitInitiate" -> ENABLED InitiateReply(r)
      [] runs[r].pc = "awaitForward" -> ENABLED ForwardReply(r)
      [] OTHER -> TRUE

\* C25: as long as the process lives, a run that is waiting for its downstream call
\* keeps no other run from its next step: a request that has arrived can be handled
\* and a reply that is due can be taken, whatever the other runs wait for.
C25_NoRunBlocksAnother ==
    ~crashed
    => \A r \in RunIds :
           (\A q \in 1..(r - 1) : runs[q].pc # "idle") => CanProceed(r)

\* The second run went from arrival to its response, with its cache write and both
\* of its POSTs, while the first is still waiting for the reply to its POST.
C25_Witness ==
    /\ runs[1].pc = "awaitPost"
    /\ Authenticated(runs[2])
    /\ runs[2].pc = "done" /\ runs[2].status = 200
    /\ Has(runs[2], "post") /\ Has(runs[2], "cache") /\ Has(runs[2], "forward")
    /\ runs[2].ext = runs[1].ext

\* The downstream call a run waits for carries a timeout.
AwaitsBounded(run) ==
    /\ run.pc = "awaitPost" => PostHasTimeout(deploy.client)
    /\ run.pc = "awaitInitiate" => InitiateHasTimeout
    /\ run.pc = "awaitForward" => ForwardHasTimeout(deploy.server)

\* C26: every downstream call made while a webhook is processed carries a bounded
\* timeout, so that no run waits on a call that nothing ever ends.
C26_EveryDownstreamCallBounded ==
    \A r \in RunIds : AwaitsBounded(runs[r])

\* C27: a delivery that failed downstream is recorded as Failed, with the class of
\* its failure: Permanent for a 4xx answer, Transient for a timeout, a network
\* error or a 5xx answer.
C27_FailureClassRecorded ==
    \A r \in RunIds :
        (/\ runs[r].pc = "done"
         /\ StoreCalls(runs[r]) > 0
         /\ runs[r].failure \in {"4xx", "5xx", "network", "timeout"})
        => \E e \in listPending(failedWebhookQueue) :
              /\ e.event = runs[r].rawBody.event
              /\ e.status = "Failed"
              /\ e.class = (IF runs[r].failure = "4xx" THEN "Permanent"
                            ELSE "Transient")

\* C29: reGenerate requests the link only after the reset request of the same user
\* has succeeded; when the reset fails, or the user id is empty, it fails and no
\* link request is made.
C29_LinkOnlyAfterSuccessfulReset ==
    [][OpStep("reGenerate")
       => /\ (\E i \in DOMAIN op'.requests : op'.requests[i] = "link")
                => /\ op'.requests = <<"reset", "link">>
                   /\ op'.reply = "ok"
                   /\ ~Falsy(op'.userId)
          /\ (Falsy(op'.userId) \/ op'.reply # "ok")
                => /\ \A i \in DOMAIN op'.requests : op'.requests[i] # "link"
                   /\ op'.err # "none"]_vars

\* A regeneration whose reset succeeded and whose link request followed it.
C29_Witness ==
    /\ op.name = "reGenerate"
    /\ op.userId = <<"u1">>
    /\ op.reply = "ok"
    /\ op.requests = <<"reset", "link">>
    /\ op.err = "none"
    /\ <<"u1">> \in DOMAIN verificationCache
    /\ verificationCache[<<"u1">>].url = "url"

\* The call reached the comparison: a secret and a claimed signature were given.
Compared == vout # "none" /\ ~Falsy(vin.secret) /\ ~Falsy(vin.sig)
\* The positions compared for a claimed signature, against the digest of the call.
StepsFor(sig) == signatureComparison(sig, Hmac(vin.secret, vin.rawBody)).steps

C31_FailureOnlyForUndelivered ==
    \A r \in RunIds :
        Has(runs[r], "store")
        => ~Is2xx(runs[r].postReply) /\ ~Has(runs[r], "cache")

\* Run r was waiting for its POST when the latest reset of u succeeded, and has
\* since written its record, of an event from before the reset, under u.
WroteAfterReset(r, u) ==
    /\ op.name = "resetUserProfile" /\ op.err = "none" /\ op.userId = u
    /\ r \in op.waiting
    /\ runs[r].ext = u
    /\ Has(runs[r], "cache")

\* C32: once a reset of u has succeeded, the cache never holds for u the record of
\* an event whose webhook run was already waiting on its downstream call when the
\* reset succeeded.
C32_NoPreResetRecordAfterReset ==
    \A r \in RunIds, u \in Users :
        (WroteAfterReset(r, u) /\ u \in DOMAIN verificationCache)
        => verificationCache[u]
              # VerificationData(deploy.client, runs[r].payload, runs[r].postReply)

\* C33: generate(u) stores its record under the key that the other operations use
\* for u, so that a reGenerate(u) leaves exactly one record for the user, under u.
C33_OneKeyForAllOperations ==
    [][/\ (OpStep("generate") /\ op'.err = "none")
             => op'.userId \in DOMAIN verificationCache'
       /\ (OpStep("reGenerate") /\ op'.err = "none")
             => {k \in DOMAIN verificationCache' : SubjectOf(k) = op'.userId}
                   = {op'.userId}]_vars

\* C34: checkUserStatus(u) creates no record and removes none; of the record of u
\* it changes only status and lastChecked; every other record stays as it was; and
\* when the provider call fails the cache stays as it was.
C34_CheckOnlyUpdatesExisting ==
    [][OpStep("checkUserStatus")
       => /\ DOMAIN verificationCache' = DOMAIN verificationCache
          /\ \A k \in DOMAIN verificationCache :
                IF k = op'.userId
                THEN [verificationCache'[k] EXCEPT
                         !.status = verificationCache[k].status,
                         !.lastChecked = verificationCache[k].lastChecked]
                        = verificationCache[k]
                ELSE verificationCache'[k] = verificationCache[k]
          /\ op'.err # "none" => verificationCache' = verificationCache]_vars

\* A status check, later than the link request that created the record, found the
\* user's record cached and updated its status and lastChecked; its url and
\* createdAt are the link request's.
C34_Witness ==
    /\ op.name = "checkUserStatus" /\ op.err = "none"
    /\ op.userId = <<"u1">>
    /\ <<"u1">> \in DOMAIN verificationCache
    /\ verificationCache[<<"u1">>].url = "url"
    /\ verificationCache[<<"u1">>].status = "completed"
    /\ verificationCache[<<"u1">>].lastChecked = now
    /\ now > 0
    /\ verificationCache[<<"u1">>].createdAt = 0

\* The run has a turn still to come: the process lives and a reply is due to it.
Pending(run) ==
    ~crashed /\ run.pc \in {"awaitPost", "awaitInitiate", "awaitForward"}

\* C35: a request has no response while a turn of its handler is still to come, and
\* exactly one once none is: never two, and never none when the handler is over.
C35_ExactlyOneResponse ==
    \A r \in RunIds :
        runs[r].pc # "idle"
        => IF Pending(runs[r]) THEN Count(runs[r], "respond") = 0
           ELSE Count(runs[r], "respond") = 1

\* C36: a reGenerate(u) whose reset succeeded and whose link request failed fails,
\* and leaves the cache without any record of the user u: neither the one cached
\* before the reset nor a new one.
C36_FailedLinkLeavesNoRecord ==
    [][(OpStep("reGenerate") /\ op'.requests = <<"reset", "link">>
                             /\ op'.err # "none")
       => /\ op'.reply = "ok"
          /\ \A k \in DOMAIN verificationCache' : SubjectOf(k) # op'.userId
          /\ \A k \in DOMAIN verificationCache' :
                k \in DOMAIN verificationCache
                   /\ verificationCache'[k] = verificationCache[k]]_vars

\* The request carried a bearer token that the server had reason to accept.
Authorized ==
    /\ startsWithBearer(api.authorization)
    /\ tokenOf(api.authorization) # ""
    /\ deploy.server = "server.js" => api.validate = "200"

\* C37: a request to a link endpoint reaches generate or reGenerate only with an
\* Authorization header that starts with 'Bearer ' and carries a non-empty token
\* (validated with status 200 in server.js); any other request is answered 401 and
\* causes no call but the token validation.
C37_LinkEndpointsRequireBearer ==
    (api.endpoint \in {"generate", "regenerate"} /\ ~Authorized)
    => /\ api.status = 401
       /\ \A i \in DOMAIN api.calls : api.calls[i] = "validate"

\* This step is a request to an admin endpoint (the clock stands still in it).
AdminStep == api'.endpoint = "admin" /\ now' = now

\* The memo holds an entry for the key that is less than CacheTtl old.
Fresh(cacheKey) ==
    /\ cacheKey \in DOMAIN adminCache
    /\ now - adminCache[cacheKey].timestamp < CacheTtl

\* C38: an admin endpoint answers from its memo only when the memo holds an entry
\* for the key that is less than 30000 ms old, and then with that entry's data; in
\* every other case it asks the downstream.  An answer from the memo is therefore
\* never 30000 ms old or older.
C38_MemoServedOnlyWhenFresh ==
    [][AdminStep
       => /\ api'.served = "cache"
                => /\ Fresh(api'.cacheKey)
                   /\ api'.data = adminCache[api'.cacheKey].data
                   /\ api'.age = now - adminCache[api'.cacheKey].timestamp
                   /\ api'.age < CacheTtl
          /\ ~Fresh(api'.cacheKey)
                => /\ api'.served \in {"fetch", "error"}
                   /\ api'.calls = <<"fetch">>]_vars

\* An answer from the memo, some time after the entry was stored.
C38_Witness ==
    /\ api.endpoint = "admin"
    /\ api.served = "cache"
    /\ api.age > 0 /\ api.age < CacheTtl
    /\ api.cacheKey \in DOMAIN adminCache
    /\ api.data = adminCache[api.cacheKey].data
    /\ now - adminCache[api.cacheKey].timestamp = api.age

====
